---------------------------- MODULE Spec2Model ----------------------------
(***************************************************************************)
(* Takeoff performance of the FK9 Mk VI (src/src/fk9.rs) and the ICAO      *)
(* standard atmosphere it rests on (src/src/meteorology.rs).               *)
(*                                                                         *)
(* The program is a set of pure functions over f64.  A behaviour of the    *)
(* model is one call: Init draws the function and its arguments (pc =       *)
(* "call"), the action of that function computes what the code returns     *)
(* (pc = "return").                                                        *)
(*                                                                         *)
(* Numbers.  An f64 is modelled by the exact rational it denotes: a record *)
(* [n, d] in lowest terms with d > 0.  Arguments are decimals (mass 472.5  *)
(* is [n |-> 945, d |-> 2]).  The running takeoff distance, whose exact    *)
(* numerator outgrows a machine integer, is kept as a sign, a numerator    *)
(* in limbs of base 1000 and the list of the denominators it has been      *)
(* divided by.  Arithmetic is exact: the binary64 representation error of  *)
(* the code (about 1e-16 relative) is not modelled, so the model and the   *)
(* code can differ only where an exact value lies on a rounding tie.       *)
(***************************************************************************)
EXTENDS Integers, Sequences, FiniteSets, TLC

VARIABLES pc, call, result

vars == <<pc, call, result>>

---------------------------------------------------------------------------
(* Exact rationals standing for f64 values *)

Abs(x) == IF x < 0 THEN -x ELSE x

RECURSIVE GCD(_, _)
GCD(a, b) == IF b = 0 THEN a ELSE GCD(b, a % b)

Reduced(n, d, g) == [n |-> n \div g, d |-> d \div g]

\* the rational n / d (d > 0) in lowest terms
Q(n, d) == Reduced(n, d, GCD(Abs(n), d))

\* a decimal literal: Dec(4725, 1) is 472.5, Dec(65, 4) is 0.0065
Dec(digits, places) == Q(digits, 10 ^ places)

\* a + b over the least common denominator, g the gcd of the denominators
RatAddOver(a, b, g) == Q(a.n * (b.d \div g) + b.n * (a.d \div g), a.d * (b.d \div g))

RatAdd(a, b) == RatAddOver(a, b, GCD(a.d, b.d))

RatNeg(a) == [n |-> -a.n, d |-> a.d]

RatSub(a, b) == RatAdd(a, RatNeg(b))

\* a * b, cross-reduced before multiplying (g1 = gcd(a.n, b.d), g2 = gcd(b.n, a.d))
RatMulOver(a, b, g1, g2) ==
    [n |-> (a.n \div g1) * (b.n \div g2), d |-> (a.d \div g2) * (b.d \div g1)]

RatMul(a, b) == RatMulOver(a, b, GCD(Abs(a.n), b.d), GCD(Abs(b.n), a.d))

\* a / b for b > 0
RatDiv(a, b) == RatMul(a, [n |-> b.d, d |-> b.n])

RatLt(a, b) == a.n * b.d < b.n * a.d

RatGt(a, b) == RatLt(b, a)

RatGe(a, b) == ~RatLt(a, b)

RatLe(a, b) == ~RatLt(b, a)

\* f64::max
RatMax(a, b) == IF RatLt(a, b) THEN b ELSE a

Signed(negative, magnitude) == IF negative THEN -magnitude ELSE magnitude

\* f64::round: the nearest integer, half away from zero
RoundHalfAway(x) ==
    Signed(x.n < 0, (Abs(x.n) \div x.d) + (IF 2 * (Abs(x.n) % x.d) >= x.d THEN 1 ELSE 0))

\* utils::round(number, precision): (number * base).round() / base
round(number, precision) ==
    Q(RoundHalfAway(RatMul(number, Q(10 ^ precision, 1))), 10 ^ precision)

\* the private copy of round in meteorology.rs
meteorology_round(x, decimals) ==
    Q(RoundHalfAway(RatMul(x, Q(10 ^ decimals, 1))), 10 ^ decimals)

---------------------------------------------------------------------------
(* The running takeoff distance: an exact product of many factors.  Its    *)
(* numerator is a natural number in limbs of base 1000, least significant  *)
(* limb first, without leading zero limbs (<< >> is zero).                 *)

RECURSIVE BigFromInt(_)
BigFromInt(n) == IF n = 0 THEN << >> ELSE <<n % 1000>> \o BigFromInt(n \div 1000)

RECURSIVE BigToInt(_)
BigToInt(a) == IF a = << >> THEN 0 ELSE a[1] + 1000 * BigToInt(Tail(a))

Limb(a) == IF a = << >> THEN 0 ELSE a[1]

Rest(a) == IF a = << >> THEN a ELSE Tail(a)

RECURSIVE BigAddCarry(_, _, _)
BigAddCarry(a, b, carry) ==
    IF a = << >> /\ b = << >>
    THEN BigFromInt(carry)
    ELSE <<(Limb(a) + Limb(b) + carry) % 1000>>
             \o BigAddCarry(Rest(a), Rest(b), (Limb(a) + Limb(b) + carry) \div 1000)

BigAdd(a, b) == BigAddCarry(a, b, 0)

\* a * m + carry for one limb m (0 <= m < 1000)
RECURSIVE BigMulLimb(_, _, _)
BigMulLimb(a, m, carry) ==
    IF a = << >>
    THEN BigFromInt(carry)
    ELSE <<(a[1] * m + carry) % 1000>> \o BigMulLimb(Tail(a), m, (a[1] * m + carry) \div 1000)

BigShift(a) == IF a = << >> THEN a ELSE <<0>> \o a

RECURSIVE BigMul(_, _)
BigMul(a, b) ==
    IF a = << >> \/ b = << >>
    THEN << >>
    ELSE BigAdd(IF b[1] = 0 THEN << >> ELSE BigMulLimb(a, b[1], 0),
                BigShift(BigMul(a, Tail(b))))

\* one step of the long division by m: hi is the quotient and remainder of the higher limbs
BigDivStep(hi, limb, m) ==
    [q |-> IF hi.q = << >> /\ (hi.r * 1000 + limb) \div m = 0
           THEN << >>
           ELSE <<(hi.r * 1000 + limb) \div m>> \o hi.q,
     r |-> (hi.r * 1000 + limb) % m]

\* floor(a / m) and a mod m for 0 < m < 2000000
RECURSIVE BigDivRem(_, _)
BigDivRem(a, m) ==
    IF a = << >>
    THEN [q |-> << >>, r |-> 0]
    ELSE BigDivStep(BigDivRem(Tail(a), m), a[1], m)

\* floor(a / (dens[1] * .. * dens[Len(dens)]))
RECURSIVE BigDivAll(_, _)
BigDivAll(a, dens) ==
    IF dens = << >> THEN a ELSE BigDivAll(BigDivRem(a, dens[1]).q, Tail(dens))

RECURSIVE BigProduct(_)
BigProduct(dens) ==
    IF dens = << >> THEN <<1>> ELSE BigMul(BigProduct(Tail(dens)), BigFromInt(dens[1]))

\* the f64 x as a running product
Wide(x) == [neg |-> x.n < 0, num |-> BigFromInt(Abs(x.n)), dens |-> <<x.d>>]

\* w * x
WideMul(w, x) ==
    [neg  |-> (w.neg # (x.n < 0)),
     num  |-> BigMul(w.num, BigFromInt(Abs(x.n))),
     dens |-> IF x.d = 1 THEN w.dens ELSE Append(w.dens, x.d)]

\* utils::round(number, precision) of a running product: (number * base).round() / base,
\* the magnitude rounded as floor((2 * |number| * base + D) / (2 * D)), D the denominator
WideRound(w, precision) ==
    Q(Signed(w.neg,
             BigToInt(BigDivAll(BigAdd(BigMul(w.num, BigFromInt(2 * 10 ^ precision)),
                                       BigProduct(w.dens)),
                                <<2>> \o w.dens))),
      10 ^ precision)

---------------------------------------------------------------------------
(* src/src/meteorology.rs *)

ICAO_MINIMUM_PRESSURE_ALTITUDE == -1000

ICAO_MAXIMUM_PRESSURE_ALTITUDE == 80000

TROPOSPHERIC_TEMPERATURE_LAPSE == Dec(65, 4)

STRATOSPHERIC_TEMPERATURE_LAPSE == Dec(10, 4)

LEVELS ==
    << [base |-> 0,     lapse_rate |-> TROPOSPHERIC_TEMPERATURE_LAPSE,  base_temperature |-> Dec(150, 1)],
       [base |-> 11000, lapse_rate |-> Dec(0, 0),                       base_temperature |-> Dec(-565, 1)],
       [base |-> 20000, lapse_rate |-> STRATOSPHERIC_TEMPERATURE_LAPSE, base_temperature |-> Dec(-565, 1)],
       [base |-> 32000, lapse_rate |-> Dec(0, 0),                       base_temperature |-> Dec(-445, 1)] >>

\* the predicate of take_while: elevation >= level.base as f64
LevelQualifies(elevation, level) == RatGe(elevation, Q(level.base, 1))

\* levels.iter().take_while(..): the longest prefix of levels that qualify
RECURSIVE TakeWhile(_, _)
TakeWhile(levels, elevation) ==
    IF levels = << >> \/ ~LevelQualifies(elevation, Head(levels))
    THEN << >>
    ELSE <<Head(levels)>> \o TakeWhile(Tail(levels), elevation)

\* taken.last().unwrap_or(default)
LastOr(taken, default) == IF taken = << >> THEN default ELSE taken[Len(taken)]

FirstOf(levels) == levels[1]

\* a faulty variant: a level counts only once the elevation has passed its base
level_above_base(elevation) ==
    LastOr(SelectSeq(LEVELS, LAMBDA level : RatGt(elevation, Q(level.base, 1))),
           FirstOf(LEVELS))

\* a faulty variant: below every base the highest level is taken
level_or_highest(elevation) ==
    LastOr(TakeWhile(LEVELS, elevation), LEVELS[Len(LEVELS)])

atmospheric_level_by_geopotential_altitude(elevation) ==
    LastOr(TakeWhile(LEVELS, elevation), FirstOf(LEVELS))

Ok(v) == [ok |-> TRUE, value |-> v]

BelowMinimum(min, pressure_altitude) ==
    [ok |-> FALSE, err |-> "BelowMinimum", min |-> min, pressure_altitude |-> pressure_altitude]

AboveMaximum(max, pressure_altitude) ==
    [ok |-> FALSE, err |-> "AboveMaximum", max |-> max, pressure_altitude |-> pressure_altitude]

\* round(current_level.base_temperature
\*       - (pressure_altitude - current_level.base as f64) * current_level.lapse_rate, 2)
level_temperature(current_level, pressure_altitude) ==
    meteorology_round(
        RatSub(current_level.base_temperature,
               RatMul(RatSub(pressure_altitude, Q(current_level.base, 1)),
                      current_level.lapse_rate)), 2)

\* a faulty variant: the limits of the envelope are themselves rejected
icao_temperature_exclusive(pressure_altitude) ==
    IF RatLe(pressure_altitude, Q(ICAO_MINIMUM_PRESSURE_ALTITUDE, 1))
    THEN BelowMinimum(Q(ICAO_MINIMUM_PRESSURE_ALTITUDE, 1), pressure_altitude)
    ELSE IF RatGe(pressure_altitude, Q(ICAO_MAXIMUM_PRESSURE_ALTITUDE, 1))
    THEN AboveMaximum(Q(ICAO_MAXIMUM_PRESSURE_ALTITUDE, 1), pressure_altitude)
    ELSE Ok(level_temperature(atmospheric_level_by_geopotential_altitude(pressure_altitude),
                              pressure_altitude))

icao_temperature(pressure_altitude) ==
    IF RatLt(pressure_altitude, Q(ICAO_MINIMUM_PRESSURE_ALTITUDE, 1))
    THEN BelowMinimum(Q(ICAO_MINIMUM_PRESSURE_ALTITUDE, 1), pressure_altitude)
    ELSE IF RatGt(pressure_altitude, Q(ICAO_MAXIMUM_PRESSURE_ALTITUDE, 1))
    THEN AboveMaximum(Q(ICAO_MAXIMUM_PRESSURE_ALTITUDE, 1), pressure_altitude)
    ELSE Ok(level_temperature(atmospheric_level_by_geopotential_altitude(pressure_altitude),
                              pressure_altitude))

\* Ok(round(temperature - standard?, 2)): the error of standard is returned as it is
deviation_from(standard, temperature) ==
    IF ~standard.ok THEN standard
    ELSE Ok(meteorology_round(RatSub(temperature, standard.value), 2))

\* the standard temperature before it is rounded
unrounded_temperature(current_level, pressure_altitude) ==
    RatSub(current_level.base_temperature,
           RatMul(RatSub(pressure_altitude, Q(current_level.base, 1)), current_level.lapse_rate))

\* a faulty variant: the deviation is taken from the unrounded standard temperature
deviation_of_unrounded_standard(pressure_altitude, temperature) ==
    IF ~icao_temperature(pressure_altitude).ok
    THEN icao_temperature(pressure_altitude)
    ELSE Ok(meteorology_round(
                RatSub(temperature,
                       unrounded_temperature(
                           atmospheric_level_by_geopotential_altitude(pressure_altitude),
                           pressure_altitude)),
                2))

calculate_temperature_deviation(pressure_altitude, temperature) ==
    deviation_from(icao_temperature(pressure_altitude), temperature)

ISA_TEMPERATURE == Dec(28815, 2)

ISA_PRESSURE == Dec(101325, 2)

SPECIFIC_GAS_CONSTANT == Dec(287058, 3)

GRAVITATIONAL_ACCELERATION == Dec(981, 2)

\* f64::powf where its value is exact: 1.0 raised to any power is 1.0.  Any
\* other base has an irrational power here and is outside this model.
powf(x, n) == CASE x = Q(1, 1) -> Q(1, 1)

\* a faulty variant: the pressure altitude is returned with all its decimals
pressure_altitude_unrounded(qnh, field_elevation) ==
    RatAdd(field_elevation,
           RatMul(RatDiv(ISA_TEMPERATURE, TROPOSPHERIC_TEMPERATURE_LAPSE),
                  RatSub(Q(1, 1),
                         powf(RatDiv(qnh, ISA_PRESSURE),
                              RatDiv(RatMul(SPECIFIC_GAS_CONSTANT, TROPOSPHERIC_TEMPERATURE_LAPSE),
                                     GRAVITATIONAL_ACCELERATION)))))

pressure_altitude_by_qnh(qnh, field_elevation) ==
    meteorology_round(
        RatAdd(field_elevation,
               RatMul(RatDiv(ISA_TEMPERATURE, TROPOSPHERIC_TEMPERATURE_LAPSE),
                      RatSub(Q(1, 1),
                             powf(RatDiv(qnh, ISA_PRESSURE),
                                  RatDiv(RatMul(SPECIFIC_GAS_CONSTANT, TROPOSPHERIC_TEMPERATURE_LAPSE),
                                         GRAVITATIONAL_ACCELERATION))))),
        2)

---------------------------------------------------------------------------
(* src/src/utils.rs *)

FEET == Dec(3048, 4)

feet_to_meter(feet) == RatMul(feet, FEET)

\* value % 360.0: the remainder of the division truncated towards zero, which
\* keeps the sign of value
normalize_degree(value) ==
    Q(Signed(value.n < 0, Abs(value.n) % (360 * value.d)), value.d)

---------------------------------------------------------------------------
(* src/src/fk9.rs *)

MAX_TEMP == 70

MIN_TEMP == -90

MAX_SLOPE == 25

Engine == {"Rotax912Ul", "Rotax912Uls"}

SurfaceCondition == {"Inconspicuous", "Slush", "Snow", "PowderSnow"}

\* Option<GrassSurface>
None == [is_some |-> FALSE, wet |-> FALSE, soft_ground |-> FALSE,
         damaged_turf |-> FALSE, high_grass |-> FALSE]

Some(wet, soft_ground, damaged_turf, high_grass) ==
    [is_some |-> TRUE, wet |-> wet, soft_ground |-> soft_ground,
     damaged_turf |-> damaged_turf, high_grass |-> high_grass]

MassTooLow(min, mass) == [ok |-> FALSE, err |-> "MassTooLow", min |-> min, mass |-> mass]

MassTooHigh(max, mass) == [ok |-> FALSE, err |-> "MassTooHigh", max |-> max, mass |-> mass]

TemperatureTooLow(min, temperature) ==
    [ok |-> FALSE, err |-> "TemperatureTooLow", min |-> min, temperature |-> temperature]

TemperatureTooHigh(max, temperature) ==
    [ok |-> FALSE, err |-> "TemperatureTooHigh", max |-> max, temperature |-> temperature]

SlopeTooSteep(max, slope) == [ok |-> FALSE, err |-> "SlopeTooSteep", max |-> max, slope |-> slope]

InvalidPressureAltitude(source) ==
    [ok |-> FALSE, err |-> "InvalidPressureAltitude", source |-> source]

\* a faulty variant: the rows of 525 kg and 540 kg stand in the wrong order
takeoff_distances_unsorted(engine) ==
    IF engine = "Rotax912Ul"
    THEN [mass        |-> <<Dec(4725, 1), Dec(5400, 1), Dec(5250, 1)>>,
          takeoff_run |-> <<Dec(1060, 1), Dec(1470, 1), Dec(1400, 1)>>,
          to_50_feet  |-> <<Dec(2650, 1), Dec(3670, 1), Dec(3500, 1)>>]
    ELSE [mass        |-> <<Dec(4725, 1), Dec(5400, 1), Dec(5250, 1), Dec(5700, 1), Dec(6000, 1)>>,
          takeoff_run |-> <<Dec(1000, 1), Dec(1360, 1), Dec(1280, 1), Dec(1410, 1), Dec(1530, 1)>>,
          to_50_feet  |-> <<Dec(2250, 1), Dec(3380, 1), Dec(3200, 1), Dec(3520, 1), Dec(3750, 1)>>]

takeoff_distances_by_engine(engine) ==
    IF engine = "Rotax912Ul"
    THEN [mass        |-> <<Dec(4725, 1), Dec(5250, 1), Dec(5400, 1)>>,
          takeoff_run |-> <<Dec(1060, 1), Dec(1400, 1), Dec(1470, 1)>>,
          to_50_feet  |-> <<Dec(2650, 1), Dec(3500, 1), Dec(3670, 1)>>]
    ELSE [mass        |-> <<Dec(4725, 1), Dec(5250, 1), Dec(5400, 1), Dec(5700, 1), Dec(6000, 1)>>,
          takeoff_run |-> <<Dec(1000, 1), Dec(1280, 1), Dec(1360, 1), Dec(1410, 1), Dec(1530, 1)>>,
          to_50_feet  |-> <<Dec(2250, 1), Dec(3200, 1), Dec(3380, 1), Dec(3520, 1), Dec(3750, 1)>>]

\* enterpolation's SortedGenerator::strict_upper_bound_clamped(element, min, max):
\* the first index in min .. max - 1 whose value exceeds element, or max
\* (indices are those of TLA+ sequences, one more than the crate's)
RECURSIVE strict_upper_bound_clamped(_, _, _, _)
strict_upper_bound_clamped(masses, element, min, max) ==
    IF min >= max \/ RatGt(masses[min], element)
    THEN min
    ELSE strict_upper_bound_clamped(masses, element, min + 1, max)

\* enterpolation's SortedGenerator::linear_factor: (element - min) / (max - min)
linear_factor(masses, min_index, max_index, element) ==
    RatDiv(RatSub(element, masses[min_index]), RatSub(masses[max_index], masses[min_index]))

\* (max_index - 1, max_index, linear_factor)
border_below(masses, max_index, element) ==
    [min_index |-> max_index - 1,
     max_index |-> max_index,
     factor    |-> linear_factor(masses, max_index - 1, max_index, element)]

\* enterpolation's SortedGenerator::upper_border(element)
upper_border(masses, element) ==
    border_below(masses, strict_upper_bound_clamped(masses, element, 2, Len(masses)), element)

\* a faulty variant: the weights of the two ends exchanged
lerp_swapped(first, second, factor) ==
    RatAdd(RatMul(second, RatSub(Q(1, 1), factor)), RatMul(first, factor))

\* enterpolation::utils::lerp: first * (1 - factor) + second * factor
lerp(first, second, factor) ==
    RatAdd(RatMul(first, RatSub(Q(1, 1), factor)), RatMul(second, factor))

\* a faulty variant: the rescaling inverted, / 100.0 * 120.0
lerp_rescaled_inversely(distances, border) ==
    RatMul(RatDiv(RatAdd(RatMul(distances[border.min_index], RatSub(Q(1, 1), border.factor)),
                         RatMul(distances[border.max_index], border.factor)),
                  Q(100, 1)),
           Q(120, 1))

\* a faulty variant: the interpolated distance is not rescaled
lerp_not_rescaled(distances, border) ==
    lerp(distances[border.min_index], distances[border.max_index], border.factor)

\* lerp(min, max, factor) / 120.0 * 100.0, min and max the distances at the border's indices
rescaled_lerp(distances, border) ==
    RatMul(RatDiv(lerp(distances[border.min_index], distances[border.max_index], border.factor),
                  Q(120, 1)),
           Q(100, 1))

calculate_base_distance(mass, masses, distances) ==
    rescaled_lerp(distances, upper_border(masses, mass))

\* a faulty variant: the multipliers of the two upper tiers exchanged
altitude_multiplier_exchanged(pressure_altitude) ==
    IF RatGt(pressure_altitude, Q(3000, 1)) THEN Dec(13, 2)
    ELSE IF RatGt(pressure_altitude, Q(1000, 1)) THEN Dec(18, 2)
    ELSE Dec(10, 2)

\* a faulty variant: 1000 ft and 3000 ft fall into the tier above them
altitude_multiplier_inclusive(pressure_altitude) ==
    IF RatGe(pressure_altitude, Q(3000, 1)) THEN Dec(18, 2)
    ELSE IF RatGe(pressure_altitude, Q(1000, 1)) THEN Dec(13, 2)
    ELSE Dec(10, 2)

\* the multiplier of apply_pressure_altitude_correction
altitude_multiplier(pressure_altitude) ==
    IF RatGt(pressure_altitude, Q(3000, 1)) THEN Dec(18, 2)
    ELSE IF RatGt(pressure_altitude, Q(1000, 1)) THEN Dec(13, 2)
    ELSE Dec(10, 2)

apply_pressure_altitude_correction(takeoff_distance, pressure_altitude) ==
    WideMul(takeoff_distance,
            RatMax(RatAdd(Q(1, 1), RatMul(altitude_multiplier(pressure_altitude),
                                          RatDiv(pressure_altitude, Q(1000, 1)))),
                   Q(1, 1)))

apply_temperature_correction(takeoff_distance, temperature_deviation) ==
    WideMul(takeoff_distance, RatAdd(Q(1, 1), RatMul(Dec(1, 2), temperature_deviation)))

\* .context(InvalidPressureAltitudeSnafu)?
in_context(deviation) == IF deviation.ok THEN deviation ELSE InvalidPressureAltitude(deviation)

\* a faulty variant: the pressure altitude is handed on in feet
deviation_for_feet(pressure_altitude, temperature) ==
    in_context(calculate_temperature_deviation(pressure_altitude,
                                               RatMax(temperature, Q(0, 1))))

\* a faulty variant: the temperature is used as it is, also below 0 degrees
deviation_unclamped(pressure_altitude, temperature) ==
    in_context(calculate_temperature_deviation(feet_to_meter(pressure_altitude), temperature))

calculate_temperature_deviation_for_correction(pressure_altitude, temperature) ==
    in_context(calculate_temperature_deviation(feet_to_meter(pressure_altitude),
                                               RatMax(temperature, Q(0, 1))))

\* Ok(apply_temperature_correction(distance, temperature_deviation?))
temperature_corrected(distance, temperature_deviation) ==
    IF ~temperature_deviation.ok THEN temperature_deviation
    ELSE Ok(apply_temperature_correction(distance, temperature_deviation.value))

apply_environmental_corrections(takeoff_distance, pressure_altitude, temperature) ==
    temperature_corrected(
        apply_pressure_altitude_correction(takeoff_distance, pressure_altitude),
        calculate_temperature_deviation_for_correction(pressure_altitude, temperature))

\* if flag { takeoff_distance *= factor; }
times_if(takeoff_distance, flag, factor) ==
    IF flag THEN WideMul(takeoff_distance, factor) ELSE takeoff_distance

\* a faulty variant: a grass surface without flags costs nothing
grass_flags_only(takeoff_distance, grass_surface) ==
    times_if(times_if(times_if(times_if(takeoff_distance, grass_surface.wet, Dec(11, 1)),
                               grass_surface.soft_ground, Dec(15, 1)),
                      grass_surface.damaged_turf, Dec(11, 1)),
             grass_surface.high_grass, Dec(12, 1))

\* a faulty variant: only the first flag that is set counts (else if)
first_flag_only(takeoff_distance, grass_surface) ==
    IF grass_surface.wet THEN WideMul(WideMul(takeoff_distance, Dec(12, 1)), Dec(11, 1))
    ELSE IF grass_surface.soft_ground
    THEN WideMul(WideMul(takeoff_distance, Dec(12, 1)), Dec(15, 1))
    ELSE IF grass_surface.damaged_turf
    THEN WideMul(WideMul(takeoff_distance, Dec(12, 1)), Dec(11, 1))
    ELSE times_if(WideMul(takeoff_distance, Dec(12, 1)), grass_surface.high_grass, Dec(12, 1))

apply_grass_surface_corrections(takeoff_distance, grass_surface) ==
    times_if(times_if(times_if(times_if(WideMul(takeoff_distance, Dec(12, 1)),
                                        grass_surface.wet, Dec(11, 1)),
                               grass_surface.soft_ground, Dec(15, 1)),
                      grass_surface.damaged_turf, Dec(11, 1)),
             grass_surface.high_grass, Dec(12, 1))

\* if grass_surface.is_some() { apply_grass_surface_corrections(.., grass_surface.unwrap()) }
grass_corrected(takeoff_distance, grass_surface) ==
    IF grass_surface.is_some
    THEN apply_grass_surface_corrections(takeoff_distance, grass_surface)
    ELSE takeoff_distance

\* a faulty variant: the factors of Snow and PowderSnow exchanged
surface_corrected_exchanged(takeoff_distance, surface_condition) ==
    CASE surface_condition = "Inconspicuous" -> takeoff_distance
      [] surface_condition = "Slush"         -> WideMul(takeoff_distance, Dec(13, 1))
      [] surface_condition = "Snow"          -> WideMul(takeoff_distance, Dec(125, 2))
      [] surface_condition = "PowderSnow"    -> WideMul(takeoff_distance, Dec(15, 1))

\* the match on surface_condition
surface_corrected(takeoff_distance, surface_condition) ==
    CASE surface_condition = "Inconspicuous" -> takeoff_distance
      [] surface_condition = "Slush"         -> WideMul(takeoff_distance, Dec(13, 1))
      [] surface_condition = "Snow"          -> WideMul(takeoff_distance, Dec(15, 1))
      [] surface_condition = "PowderSnow"    -> WideMul(takeoff_distance, Dec(125, 2))

\* the factor of a surface condition
condition_factor(surface_condition) ==
    CASE surface_condition = "Inconspicuous" -> Q(1, 1)
      [] surface_condition = "Slush"         -> Dec(13, 1)
      [] surface_condition = "Snow"          -> Dec(15, 1)
      [] surface_condition = "PowderSnow"    -> Dec(125, 2)

\* a faulty variant: the distance is rounded before the surface condition is applied
contaminated_after_rounding(environmental, slope, grass_surface, surface_condition) ==
    IF ~environmental.ok THEN environmental
    ELSE Ok(RatMul(WideRound(
                       grass_corrected(
                           WideMul(environmental.value,
                                   RatAdd(Q(1, 1), RatMul(Dec(1, 1), slope))),
                           grass_surface),
                       2),
                   condition_factor(surface_condition)))

\* apply_corrections from its second statement on; environmental is the value of
\* apply_environmental_corrections(..), whose error the ? returns
corrections_after(environmental, slope, grass_surface, surface_condition) ==
    IF ~environmental.ok THEN environmental
    ELSE Ok(WideRound(
                surface_corrected(
                    grass_corrected(
                        WideMul(environmental.value, RatAdd(Q(1, 1), RatMul(Dec(1, 1), slope))),
                        grass_surface),
                    surface_condition),
                2))

\* an intermediate result rounded to two decimals
rounded_stage(environmental) ==
    IF ~environmental.ok THEN environmental ELSE Ok(Wide(WideRound(environmental.value, 2)))

\* a faulty variant: the distance is rounded after the environmental corrections as well
rounded_between(takeoff_distance, pressure_altitude, temperature, slope, grass_surface, surface_condition) ==
    corrections_after(
        rounded_stage(apply_environmental_corrections(Wide(takeoff_distance), pressure_altitude,
                                                      temperature)),
        slope, grass_surface, surface_condition)

apply_corrections(takeoff_distance, pressure_altitude, temperature, slope, grass_surface, surface_condition) ==
    corrections_after(
        apply_environmental_corrections(Wide(takeoff_distance), pressure_altitude, temperature),
        slope, grass_surface, surface_condition)

\* Ok((run?, to50?))
both(run, to50) ==
    IF ~run.ok THEN run
    ELSE IF ~to50.ok THEN to50
    ELSE Ok(<<run.value, to50.value>>)

\* the value calculate_takeoff_distance returns once its checks have passed
corrected_distances(takeoff_table, mass, pressure_altitude, temperature, slope, grass_surface, surface_condition) ==
    both(apply_corrections(
             calculate_base_distance(mass, takeoff_table.mass, takeoff_table.takeoff_run),
             pressure_altitude, temperature, slope, grass_surface, surface_condition),
         apply_corrections(
             calculate_base_distance(mass, takeoff_table.mass, takeoff_table.to_50_feet),
             pressure_altitude, temperature, slope, grass_surface, surface_condition))

First(masses) == masses[1]

Last(masses) == masses[Len(masses)]

\* a faulty variant: the first and the last mass of the table are rejected too
checked_mass_exclusive(takeoff_table, mass, pressure_altitude, temperature, slope, grass_surface, surface_condition) ==
    IF RatLe(mass, First(takeoff_table.mass))
    THEN MassTooLow(First(takeoff_table.mass), mass)
    ELSE IF RatGe(mass, Last(takeoff_table.mass))
    THEN MassTooHigh(Last(takeoff_table.mass), mass)
    ELSE corrected_distances(takeoff_table, mass, pressure_altitude, temperature, slope,
                             grass_surface, surface_condition)

\* calculate_takeoff_distance from the lookup of the table on
checked_mass(takeoff_table, mass, pressure_altitude, temperature, slope, grass_surface, surface_condition) ==
    IF RatLt(mass, First(takeoff_table.mass))
    THEN MassTooLow(First(takeoff_table.mass), mass)
    ELSE IF RatGt(mass, Last(takeoff_table.mass))
    THEN MassTooHigh(Last(takeoff_table.mass), mass)
    ELSE corrected_distances(takeoff_table, mass, pressure_altitude, temperature, slope,
                             grass_surface, surface_condition)

\* temperature, then slope: the checks that precede the lookup of the table
checked_temperature_and_slope(temperature, slope, otherwise) ==
    IF RatGt(temperature, Q(MAX_TEMP, 1))
    THEN TemperatureTooHigh(Q(MAX_TEMP, 1), temperature)
    ELSE IF RatLt(temperature, Q(MIN_TEMP, 1))
    THEN TemperatureTooLow(Q(MIN_TEMP, 1), temperature)
    ELSE IF RatGt(slope, Q(MAX_SLOPE, 1)) \/ RatLt(slope, Q(-MAX_SLOPE, 1))
    THEN SlopeTooSteep(Q(MAX_SLOPE, 1), slope)
    ELSE otherwise

\* a faulty variant: the mass is checked before temperature and slope
mass_checked_first(engine, mass, pressure_altitude, temperature, slope, grass_surface, surface_condition) ==
    IF RatLt(mass, First(takeoff_distances_by_engine(engine).mass))
    THEN MassTooLow(First(takeoff_distances_by_engine(engine).mass), mass)
    ELSE IF RatGt(mass, Last(takeoff_distances_by_engine(engine).mass))
    THEN MassTooHigh(Last(takeoff_distances_by_engine(engine).mass), mass)
    ELSE checked_temperature_and_slope(
             temperature, slope,
             corrected_distances(takeoff_distances_by_engine(engine), mass, pressure_altitude,
                                 temperature, slope, grass_surface, surface_condition))

\* a faulty variant: the pressure altitude is looked at before the request is validated
altitude_checked_first(engine, mass, pressure_altitude, temperature, slope, grass_surface, surface_condition) ==
    IF ~calculate_temperature_deviation_for_correction(pressure_altitude, temperature).ok
    THEN calculate_temperature_deviation_for_correction(pressure_altitude, temperature)
    ELSE checked_temperature_and_slope(
             temperature, slope,
             checked_mass(takeoff_distances_by_engine(engine), mass, pressure_altitude,
                          temperature, slope, grass_surface, surface_condition))

\* a faulty variant: the limits of the temperature range are themselves rejected
temperature_limits_exclusive(engine, mass, pressure_altitude, temperature, slope, grass_surface, surface_condition) ==
    IF RatGe(temperature, Q(MAX_TEMP, 1))
    THEN TemperatureTooHigh(Q(MAX_TEMP, 1), temperature)
    ELSE IF RatLe(temperature, Q(MIN_TEMP, 1))
    THEN TemperatureTooLow(Q(MIN_TEMP, 1), temperature)
    ELSE IF RatGt(slope, Q(MAX_SLOPE, 1)) \/ RatLt(slope, Q(-MAX_SLOPE, 1))
    THEN SlopeTooSteep(Q(MAX_SLOPE, 1), slope)
    ELSE checked_mass(takeoff_distances_by_engine(engine), mass, pressure_altitude,
                      temperature, slope, grass_surface, surface_condition)

\* a faulty variant: only an uphill slope is checked
uphill_slope_only(engine, mass, pressure_altitude, temperature, slope, grass_surface, surface_condition) ==
    IF RatGt(temperature, Q(MAX_TEMP, 1))
    THEN TemperatureTooHigh(Q(MAX_TEMP, 1), temperature)
    ELSE IF RatLt(temperature, Q(MIN_TEMP, 1))
    THEN TemperatureTooLow(Q(MIN_TEMP, 1), temperature)
    ELSE IF RatGt(slope, Q(MAX_SLOPE, 1))
    THEN SlopeTooSteep(Q(MAX_SLOPE, 1), slope)
    ELSE checked_mass(takeoff_distances_by_engine(engine), mass, pressure_altitude,
                      temperature, slope, grass_surface, surface_condition)

calculate_takeoff_distance(engine, mass, pressure_altitude, temperature, slope, grass_surface, surface_condition) ==
    IF RatGt(temperature, Q(MAX_TEMP, 1))
    THEN TemperatureTooHigh(Q(MAX_TEMP, 1), temperature)
    ELSE IF RatLt(temperature, Q(MIN_TEMP, 1))
    THEN TemperatureTooLow(Q(MIN_TEMP, 1), temperature)
    ELSE IF RatGt(slope, Q(MAX_SLOPE, 1)) \/ RatLt(slope, Q(-MAX_SLOPE, 1))
    THEN SlopeTooSteep(Q(MAX_SLOPE, 1), slope)
    ELSE checked_mass(takeoff_distances_by_engine(engine), mass, pressure_altitude,
                      temperature, slope, grass_surface, surface_condition)

---------------------------------------------------------------------------
(* The calls *)

MaxMassStep == 14

MaxAltitudeStep == 33

\* masses in kg: a sweep of 10 kg steps from 470.0, the table's masses and their neighbours
Masses ==
    {Dec(4700 + 100 * k, 1) : k \in 0 .. MaxMassStep}
        \cup {Dec(m, 1) : m \in {4724, 4725, 4726, 5200, 5250, 5399, 5401, 5999, 6001}}

\* temperatures in degrees Celsius
Temperatures == {Dec(t, 1) : t \in {-901, -900, -30, 0, 150, 210, 700, 701}}

\* slopes in percent
Slopes == {Dec(x, 1) : x \in {-251, -250, -100, -22, 0, 30, 250, 251}}

\* pressure altitudes in feet
AltitudesFt ==
    {Dec(a, 1) : a \in {-50000, -32809, -32808, -5, 0, 3640, 10000, 20005,
                        30000, 32005, 2624671, 2624672}}

\* pressure altitudes in metres: a sweep of 2500 m steps from -1500 m, the
\* envelope's limits, the band bases and their neighbours
AltitudesM ==
    {Q(-1500 + 2500 * k, 1) : k \in 0 .. MaxAltitudeStep}
        \cup {Dec(a, 2) : a \in {-100001, -100000, -20000, -1, 0, 11370, 18288, 20000,
                                 1099999, 1100000, 1300000, 1999999, 2000000, 2500000,
                                 3199999, 3200000, 8000000, 8000001}}

GrassSurfaces ==
    {None} \cup {Some(w, s, d, h) : w \in BOOLEAN, s \in BOOLEAN, d \in BOOLEAN, h \in BOOLEAN}

TakeoffCall(engine, mass, pressure_altitude, temperature, slope, grass_surface, surface_condition) ==
    [fn |-> "calculate_takeoff_distance", engine |-> engine, mass |-> mass,
     pressure_altitude |-> pressure_altitude, temperature |-> temperature, slope |-> slope,
     grass_surface |-> grass_surface, surface_condition |-> surface_condition]

\* every combination of temperature, slope and mass, in and out of range
ValidationCalls ==
    {TakeoffCall(e, m, a, t, s, None, "Inconspicuous") :
        e \in Engine, m \in Masses, a \in {Dec(0, 1), Dec(-50000, 1)},
        t \in Temperatures, s \in Slopes}

\* every combination of mass, pressure altitude, temperature and slope on
\* requests that pass validation
EnvironmentCalls ==
    {TakeoffCall(e, m, a, t, s, g, c) :
        e \in Engine, m \in {Dec(4725, 1), Dec(5200, 1), Dec(5500, 1), Dec(6000, 1)},
        a \in AltitudesFt, t \in {Dec(-30, 1), Dec(150, 1), Dec(210, 1)},
        s \in {Dec(-22, 1), Dec(0, 1), Dec(30, 1)},
        g \in {None, Some(TRUE, FALSE, FALSE, FALSE)}, c \in {"Inconspicuous", "Snow"}}

\* every grass surface and surface condition
SurfaceCalls ==
    {TakeoffCall(e, m, a, t, s, g, c) :
        e \in Engine, m \in {Dec(5200, 1), Dec(6000, 1)},
        a \in {Dec(0, 1), Dec(3640, 1), Dec(20005, 1)},
        t \in {Dec(-20, 1), Dec(150, 1), Dec(210, 1)}, s \in {Dec(0, 1), Dec(30, 1)},
        g \in GrassSurfaces, c \in SurfaceCondition}

IcaoCalls == {[fn |-> "icao_temperature", pressure_altitude |-> a] : a \in AltitudesM}

DeviationCalls ==
    {[fn |-> "calculate_temperature_deviation", pressure_altitude |-> a, temperature |-> t] :
        a \in AltitudesM \cup {Q(10, 1), Q(200, 1)},
        t \in {Dec(t10, 1) : t10 \in {-30, 0, 140, 150, 160, 213}}}

Columns == {"takeoff_run", "to_50_feet"}

Within(mass, masses) == RatGe(mass, First(masses)) /\ RatLe(mass, Last(masses))

InRange(engine, mass) == Within(mass, takeoff_distances_by_engine(engine).mass)

\* the masses of the tables' rows
RowMasses == {Dec(m, 1) : m \in {4725, 5250, 5400, 5700, 6000}}

\* the requests of the tests on the tables' rows: at and just below sea level, 15
\* degrees, level, grass without flags or none, every surface condition
TableRowCalls ==
    {TakeoffCall(e, m, a, Dec(150, 1), Dec(0, 1), g, c) :
        e \in Engine, m \in RowMasses, a \in {Dec(0, 1), Dec(-5, 1)},
        g \in {None, Some(FALSE, FALSE, FALSE, FALSE)}, c \in SurfaceCondition}

\* calculate_base_distance is private: it is called with validated masses only
BaseDistanceCalls ==
    {x \in {[fn |-> "calculate_base_distance", engine |-> e, column |-> c, mass |-> m] :
                e \in Engine, c \in Columns, m \in Masses} : InRange(x.engine, x.mass)}

\* distances in m handed to the stages of the correction chain
Distances == {Q(465, 1), Q(100, 1), Q(250, 3), Dec(1875, 1)}

\* apply_pressure_altitude_correction is private and takes any altitude in feet
PressureAltitudeCalls ==
    {[fn |-> "apply_pressure_altitude_correction", takeoff_distance |-> d,
      pressure_altitude |-> a] :
        d \in Distances,
        a \in AltitudesFt \cup {Dec(x, 1) : x \in {-100000, -10000, 5000, 9999, 10001, 20000,
                                                  29999, 30001, 100000}}}

\* calculate_temperature_deviation_for_correction is private: pressure altitude in feet,
\* temperature in degrees Celsius
DeviationForCorrectionCalls ==
    {[fn |-> "calculate_temperature_deviation_for_correction", pressure_altitude |-> a,
      temperature |-> t] :
        a \in AltitudesFt \cup {Q(200, 1), Q(600, 1), Q(1150, 1), Q(2000, 1)},
        t \in {Q(x, 1) : x \in {-90, -3, 0, 1, 15, 28, 35}}}

\* apply_grass_surface_corrections is private and takes a GrassSurface
GrassSurfaceCalls ==
    {[fn |-> "apply_grass_surface_corrections", takeoff_distance |-> d, grass_surface |-> g] :
        d \in Distances, g \in GrassSurfaces \ {None}}

\* apply_corrections is private: the requests of its tests, under every surface condition
CorrectionCalls ==
    {[fn |-> "apply_corrections", takeoff_distance |-> d, pressure_altitude |-> a,
      temperature |-> t, slope |-> Q(0, 1), grass_surface |-> g, surface_condition |-> c] :
        d \in {Q(316, 1), Q(465, 1)}, a \in {Q(600, 1), Q(1150, 1), Q(2000, 1)},
        t \in {Q(-3, 1), Q(1, 1), Q(28, 1), Q(35, 1)},
        g \in {None, Some(TRUE, FALSE, FALSE, FALSE)}, c \in SurfaceCondition}

\* field elevations in metres: whole, with two decimals, and with more
FieldElevations ==
    {Dec(1130, 1), Dec(0, 0), Dec(-5025, 2), Dec(25825, 2), Dec(8000000, 2),
     feet_to_meter(Dec(3640, 1)), Dec(113456, 3), Dec(-50254, 3), Dec(4, 3), Dec(-4, 3)}

\* the standard pressure is the only QNH whose power is exact
PressureAltitudeByQnhCalls ==
    {[fn |-> "pressure_altitude_by_qnh", qnh |-> ISA_PRESSURE, field_elevation |-> x] :
        x \in FieldElevations}

Degrees ==
    {Dec(3700, 1), Dec(3600, 1), Dec(0, 0), Dec(100, 1), Dec(35999, 2), Dec(7255, 1),
     Dec(10800, 1), Dec(-100, 1), Dec(-5, 1), Dec(-3600, 1), Dec(-3700, 1), Dec(-7255, 1)}

NormalizeDegreeCalls == {[fn |-> "normalize_degree", value |-> v] : v \in Degrees}

Calls == ValidationCalls \cup EnvironmentCalls \cup SurfaceCalls \cup IcaoCalls
            \cup DeviationCalls \cup BaseDistanceCalls \cup PressureAltitudeCalls
            \cup DeviationForCorrectionCalls \cup GrassSurfaceCalls
            \cup CorrectionCalls \cup TableRowCalls \cup PressureAltitudeByQnhCalls
            \cup NormalizeDegreeCalls

NoResult == [ok |-> FALSE, err |-> "NoResult"]

Init ==
    /\ pc = "call"
    /\ call \in Calls
    /\ result = NoResult

CalculateTakeoffDistance ==
    /\ pc = "call"
    /\ call.fn = "calculate_takeoff_distance"
    /\ result' = calculate_takeoff_distance(call.engine, call.mass, call.pressure_altitude,
                                            call.temperature, call.slope, call.grass_surface,
                                            call.surface_condition)
    /\ pc' = "return"
    /\ UNCHANGED call

IcaoTemperature ==
    /\ pc = "call"
    /\ call.fn = "icao_temperature"
    /\ result' = icao_temperature(call.pressure_altitude)
    /\ pc' = "return"
    /\ UNCHANGED call

CalculateTemperatureDeviation ==
    /\ pc = "call"
    /\ call.fn = "calculate_temperature_deviation"
    /\ result' = calculate_temperature_deviation(call.pressure_altitude, call.temperature)
    /\ pc' = "return"
    /\ UNCHANGED call

Column(table, column) == IF column = "takeoff_run" THEN table.takeoff_run ELSE table.to_50_feet

CalculateBaseDistance ==
    /\ pc = "call"
    /\ call.fn = "calculate_base_distance"
    /\ result' = Ok(calculate_base_distance(
                        call.mass, takeoff_distances_by_engine(call.engine).mass,
                        Column(takeoff_distances_by_engine(call.engine), call.column)))
    /\ pc' = "return"
    /\ UNCHANGED call

ApplyPressureAltitudeCorrection ==
    /\ pc = "call"
    /\ call.fn = "apply_pressure_altitude_correction"
    /\ result' = Ok(apply_pressure_altitude_correction(Wide(call.takeoff_distance),
                                                       call.pressure_altitude))
    /\ pc' = "return"
    /\ UNCHANGED call

CalculateTemperatureDeviationForCorrection ==
    /\ pc = "call"
    /\ call.fn = "calculate_temperature_deviation_for_correction"
    /\ result' = calculate_temperature_deviation_for_correction(call.pressure_altitude,
                                                                call.temperature)
    /\ pc' = "return"
    /\ UNCHANGED call

ApplyGrassSurfaceCorrections ==
    /\ pc = "call"
    /\ call.fn = "apply_grass_surface_corrections"
    /\ result' = Ok(apply_grass_surface_corrections(Wide(call.takeoff_distance),
                                                    call.grass_surface))
    /\ pc' = "return"
    /\ UNCHANGED call

ApplyCorrections ==
    /\ pc = "call"
    /\ call.fn = "apply_corrections"
    /\ result' = apply_corrections(call.takeoff_distance, call.pressure_altitude,
                                   call.temperature, call.slope, call.grass_surface,
                                   call.surface_condition)
    /\ pc' = "return"
    /\ UNCHANGED call

PressureAltitudeByQnh ==
    /\ pc = "call"
    /\ call.fn = "pressure_altitude_by_qnh"
    /\ result' = Ok(pressure_altitude_by_qnh(call.qnh, call.field_elevation))
    /\ pc' = "return"
    /\ UNCHANGED call

NormalizeDegree ==
    /\ pc = "call"
    /\ call.fn = "normalize_degree"
    /\ result' = Ok(normalize_degree(call.value))
    /\ pc' = "return"
    /\ UNCHANGED call

Next ==
    \/ CalculateTakeoffDistance
    \/ IcaoTemperature
    \/ CalculateTemperatureDeviation
    \/ CalculateBaseDistance
    \/ ApplyPressureAltitudeCorrection
    \/ CalculateTemperatureDeviationForCorrection
    \/ ApplyGrassSurfaceCorrections
    \/ ApplyCorrections
    \/ PressureAltitudeByQnh
    \/ NormalizeDegree

Spec == Init /\ [][Next]_vars

---------------------------------------------------------------------------
(* Properties of calculate_takeoff_distance's validation *)

\* the call of fn has returned
Returned(fn) == pc = "return" /\ call.fn = fn

\* the result is the error variant kind
Failed(kind) == ~result.ok /\ result.err = kind

TemperatureValid(temperature) ==
    RatGe(temperature, Dec(-900, 1)) /\ RatLe(temperature, Dec(700, 1))

SlopeValid(slope) == RatGe(slope, Dec(-250, 1)) /\ RatLe(slope, Dec(250, 1))

\* the pressure altitude, given in feet, lies in the atmosphere's envelope of -1000 m .. 80000 m
AltitudeValid(pressure_altitude) ==
    /\ RatGe(RatMul(pressure_altitude, Dec(3048, 4)), Dec(-10000, 1))
    /\ RatLe(RatMul(pressure_altitude, Dec(3048, 4)), Dec(800000, 1))

\* the mass limits of each engine, as the specification states them
LowestMass(engine) == Dec(4725, 1)

HighestMass(engine) == IF engine = "Rotax912Ul" THEN Dec(5400, 1) ELSE Dec(6000, 1)

MassValid(engine, mass) == RatGe(mass, LowestMass(engine)) /\ RatLe(mass, HighestMass(engine))

\* C1: calculate_takeoff_distance checks temperature, then slope, then mass, and the
\* first failing check decides the error: a temperature outside [-90, 70] gives
\* TemperatureTooLow or TemperatureTooHigh whatever slope and mass are; a valid
\* temperature with |slope| > 25 gives SlopeTooSteep whatever the mass is; MassTooLow
\* or MassTooHigh is returned only when temperature and slope are both valid.
C1_ValidationOrder ==
    Returned("calculate_takeoff_distance") =>
        /\ RatLt(call.temperature, Dec(-900, 1)) => Failed("TemperatureTooLow")
        /\ RatGt(call.temperature, Dec(700, 1)) => Failed("TemperatureTooHigh")
        /\ (TemperatureValid(call.temperature) /\ ~SlopeValid(call.slope))
               => Failed("SlopeTooSteep")
        /\ (Failed("MassTooLow") \/ Failed("MassTooHigh"))
               => (TemperatureValid(call.temperature) /\ SlopeValid(call.slope))

\* temperature, slope and mass are all out of range, and the temperature decides
C1_Witness ==
    /\ Returned("calculate_takeoff_distance")
    /\ RatGt(call.temperature, Dec(700, 1))
    /\ RatLt(call.slope, Dec(-250, 1))
    /\ RatGt(call.mass, HighestMass(call.engine))
    /\ Failed("TemperatureTooHigh")

\* C2: with valid temperature and slope, for every engine and mass the result is
\* MassTooLow{min, mass} iff the mass is below the first mass of the engine's table and
\* MassTooHigh{max, mass} iff it is above the last one; min and max are the engine's own
\* limits (472.5 and 540.0 for Rotax912Ul, 472.5 and 600.0 for Rotax912Uls), mass is the
\* caller's value, and a mass equal to the first or the last table mass is accepted.
C2_MassLimits ==
    (/\ Returned("calculate_takeoff_distance")
     /\ TemperatureValid(call.temperature)
     /\ SlopeValid(call.slope)) =>
        /\ RatLt(call.mass, LowestMass(call.engine))
               <=> result = MassTooLow(LowestMass(call.engine), call.mass)
        /\ RatGt(call.mass, HighestMass(call.engine))
               <=> result = MassTooHigh(HighestMass(call.engine), call.mass)
        /\ Failed("MassTooLow") => result = MassTooLow(LowestMass(call.engine), call.mass)
        /\ Failed("MassTooHigh") => result = MassTooHigh(HighestMass(call.engine), call.mass)
        /\ (/\ call.mass \in {LowestMass(call.engine), HighestMass(call.engine)}
            /\ AltitudeValid(call.pressure_altitude)) => result.ok

\* 540.0 kg, the last mass of the Rotax912Ul table, is accepted
C2_Witness ==
    /\ Returned("calculate_takeoff_distance")
    /\ call.engine = "Rotax912Ul"
    /\ call.mass = Dec(5400, 1)
    /\ TemperatureValid(call.temperature)
    /\ SlopeValid(call.slope)
    /\ result.ok

\* C3: for inputs otherwise valid, calculate_takeoff_distance succeeds for every
\* temperature in [-90, 70], both ends included, returns TemperatureTooLow{min: -90,
\* temperature} for every temperature below -90 and TemperatureTooHigh{max: 70,
\* temperature} for every temperature above 70, with the caller's temperature.
C3_TemperatureRange ==
    (/\ Returned("calculate_takeoff_distance")
     /\ SlopeValid(call.slope)
     /\ MassValid(call.engine, call.mass)
     /\ AltitudeValid(call.pressure_altitude)) =>
        /\ TemperatureValid(call.temperature) => result.ok
        /\ RatLt(call.temperature, Dec(-900, 1))
               => result = TemperatureTooLow(Dec(-900, 1), call.temperature)
        /\ RatGt(call.temperature, Dec(700, 1))
               => result = TemperatureTooHigh(Dec(700, 1), call.temperature)

\* a request at exactly -90 degrees succeeds
C3_Witness ==
    /\ Returned("calculate_takeoff_distance")
    /\ call.temperature = Dec(-900, 1)
    /\ result.ok

\* C4: for a valid temperature, calculate_takeoff_distance returns SlopeTooSteep{max: 25,
\* slope} iff slope > 25 or slope < -25, with the signed slope as given; slopes of
\* exactly 25 and -25 pass the slope check.
C4_SlopeLimit ==
    (/\ Returned("calculate_takeoff_distance")
     /\ TemperatureValid(call.temperature)) =>
        /\ (RatGt(call.slope, Dec(250, 1)) \/ RatLt(call.slope, Dec(-250, 1)))
               <=> result = SlopeTooSteep(Dec(250, 1), call.slope)
        /\ call.slope \in {Dec(250, 1), Dec(-250, 1)} => ~Failed("SlopeTooSteep")
        /\ Failed("SlopeTooSteep") => result = SlopeTooSteep(Dec(250, 1), call.slope)

\* a slope of -25.1 percent is rejected, the payload keeping its sign
C4_Witness ==
    /\ Returned("calculate_takeoff_distance")
    /\ TemperatureValid(call.temperature)
    /\ call.slope = Dec(-251, 1)
    /\ result = SlopeTooSteep(Dec(250, 1), Dec(-251, 1))

---------------------------------------------------------------------------
(* Properties of the standard atmosphere *)

\* C5: icao_temperature returns Ok for every altitude in [-1000, 80000] m,
\* BelowMinimum{min: -1000, pressure_altitude} for every altitude below -1000 and
\* AboveMaximum{max: 80000, pressure_altitude} for every altitude above 80000, with
\* the exact limit and the altitude that was passed in.
C5_AltitudeEnvelope ==
    Returned("icao_temperature") =>
        /\ (/\ RatGe(call.pressure_altitude, Dec(-10000, 1))
            /\ RatLe(call.pressure_altitude, Dec(800000, 1))) => result.ok
        /\ RatLt(call.pressure_altitude, Dec(-10000, 1))
               => result = BelowMinimum(Dec(-10000, 1), call.pressure_altitude)
        /\ RatGt(call.pressure_altitude, Dec(800000, 1))
               => result = AboveMaximum(Dec(800000, 1), call.pressure_altitude)

\* the lower limit, -1000 m, is accepted
C5_Witness ==
    /\ Returned("icao_temperature")
    /\ call.pressure_altitude = Dec(-10000, 1)
    /\ result.ok

\* the bands whose base is not above the altitude
BandsUpTo(altitude) == {i \in 1 .. Len(LEVELS) : RatLe(Q(LEVELS[i].base, 1), altitude)}

\* the band with the greatest base <= altitude
BandOf(altitude) ==
    LEVELS[CHOOSE i \in BandsUpTo(altitude) : \A j \in BandsUpTo(altitude) :
                                                  LEVELS[j].base <= LEVELS[i].base]

\* base_temperature - (altitude - base) * lapse_rate of a band, to two decimals
BandTemperature(band, altitude) ==
    round(RatSub(band.base_temperature,
                 RatMul(RatSub(altitude, Q(band.base, 1)), band.lapse_rate)), 2)

\* the standard temperatures the specification lists, altitude in m |-> degrees Celsius
ListedTemperatures ==
    { <<Q(0, 1), Dec(150, 1)>>, <<Q(11000, 1), Dec(-565, 1)>>, <<Q(20000, 1), Dec(-565, 1)>>,
      <<Q(25000, 1), Dec(-615, 1)>>, <<Q(32000, 1), Dec(-445, 1)>>,
      <<Q(80000, 1), Dec(-445, 1)>> }

\* C6: for every altitude in [0, 80000] m icao_temperature returns
\* round2(band.base_temperature - (altitude - band.base) * band.lapse_rate), band the
\* band with the greatest base <= altitude, so that an altitude equal to a base of
\* 11000, 20000 or 32000 uses the band starting there; in particular 0 -> 15.0,
\* 11000 -> -56.5, 20000 -> -56.5, 25000 -> -61.5, 32000 -> -44.5, 80000 -> -44.5.
C6_BandTemperature ==
    (/\ Returned("icao_temperature")
     /\ RatGe(call.pressure_altitude, Q(0, 1))
     /\ RatLe(call.pressure_altitude, Q(80000, 1))) =>
        /\ result = Ok(BandTemperature(BandOf(call.pressure_altitude), call.pressure_altitude))
        /\ \A listed \in ListedTemperatures :
               call.pressure_altitude = listed[1] => result = Ok(listed[2])

\* at 32000 m the band starting there decides: -44.5 degrees
C6_Witness ==
    /\ Returned("icao_temperature")
    /\ call.pressure_altitude = Q(32000, 1)
    /\ result = Ok(Dec(-445, 1))

\* C7: calculate_temperature_deviation(altitude, t) returns round2(t -
\* icao_temperature(altitude)), taken from the standard temperature already rounded to
\* two decimals, whenever the altitude is in [-1000, 80000], and exactly the error of
\* icao_temperature (variant, limit and altitude) otherwise; it is 0 at (0 m, 15 degrees).
C7_TemperatureDeviation ==
    Returned("calculate_temperature_deviation") =>
        /\ IF /\ RatGe(call.pressure_altitude, Q(-1000, 1))
              /\ RatLe(call.pressure_altitude, Q(80000, 1))
           THEN /\ icao_temperature(call.pressure_altitude).ok
                /\ result = Ok(round(RatSub(call.temperature,
                                            icao_temperature(call.pressure_altitude).value), 2))
           ELSE /\ ~result.ok
                /\ result = icao_temperature(call.pressure_altitude)
                /\ result.err \in {"BelowMinimum", "AboveMaximum"}
                /\ result.pressure_altitude = call.pressure_altitude
        /\ (call.pressure_altitude = Q(0, 1) /\ call.temperature = Q(15, 1))
               => result = Ok(Q(0, 1))
        \* at 10 m the standard temperature 14.935 is rounded to 14.94 before it is subtracted
        /\ (call.pressure_altitude = Q(10, 1) /\ call.temperature = Q(15, 1))
               => result = Ok(Dec(6, 2))

\* at 10 m and 15 degrees the deviation is 0.06, not the 0.07 of the unrounded 0.065
C7_Witness ==
    /\ Returned("calculate_temperature_deviation")
    /\ call.pressure_altitude = Q(10, 1)
    /\ call.temperature = Q(15, 1)
    /\ result = Ok(Dec(6, 2))

---------------------------------------------------------------------------
(* Properties of the corrected distances *)

\* A: the pressure-altitude factor, pressure altitude in feet
AltitudeFactor(pressure_altitude) ==
    LET rate == IF RatGt(pressure_altitude, Q(3000, 1)) THEN Dec(18, 2)
                ELSE IF RatGt(pressure_altitude, Q(1000, 1)) THEN Dec(13, 2)
                ELSE Dec(10, 2)
    IN  RatMax(RatAdd(Q(1, 1), RatMul(rate, RatDiv(pressure_altitude, Q(1000, 1)))), Q(1, 1))

\* T: 1 + 0.01 * the deviation of max(temperature, 0) from the standard temperature
TemperatureFactor(pressure_altitude, temperature) ==
    RatAdd(Q(1, 1),
           RatMul(Dec(1, 2),
                  calculate_temperature_deviation(RatMul(pressure_altitude, Dec(3048, 4)),
                                                  RatMax(temperature, Q(0, 1))).value))

\* S: 1 + 0.1 * slope
SlopeFactor(slope) == RatAdd(Q(1, 1), RatMul(Dec(1, 1), slope))

IfSet(flag, factor) == IF flag THEN factor ELSE Q(1, 1)

\* G: the grass factor, 1 when there is no grass surface
GrassFactor(grass_surface) ==
    IF ~grass_surface.is_some
    THEN Q(1, 1)
    ELSE RatMul(RatMul(RatMul(RatMul(Dec(12, 1), IfSet(grass_surface.wet, Dec(11, 1))),
                              IfSet(grass_surface.soft_ground, Dec(15, 1))),
                       IfSet(grass_surface.damaged_turf, Dec(11, 1))),
                IfSet(grass_surface.high_grass, Dec(12, 1)))

\* C: the contamination factor
ContaminationFactor(surface_condition) ==
    CASE surface_condition = "Inconspicuous" -> Q(1, 1)
      [] surface_condition = "Slush"         -> Dec(13, 1)
      [] surface_condition = "Snow"          -> Dec(15, 1)
      [] surface_condition = "PowderSnow"    -> Dec(125, 2)

\* round2(base * A * T * S * G * C), the product taken exactly and rounded once
RoundedProduct(base, A, T, S, G, C) ==
    WideRound(WideMul(WideMul(WideMul(WideMul(WideMul(Wide(base), A), T), S), G), C), 2)

\* the base distance of a column: the table's value at the mass, interpolated and rescaled
BaseOf(engine, column, mass) ==
    calculate_base_distance(mass, takeoff_distances_by_engine(engine).mass,
                            Column(takeoff_distances_by_engine(engine), column))

\* Rotax912Uls, 520 kg, 364 ft, 21 degrees, level, no grass, no contamination
Frankfurt ==
    TakeoffCall("Rotax912Uls", Dec(5200, 1), Dec(3640, 1), Dec(210, 1), Dec(0, 1), None,
                "Inconspicuous")

Rescaled(v) == RatMul(RatDiv(v, Q(120, 1)), Q(100, 1))

TableMasses == takeoff_distances_by_engine(call.engine).mass

TableDistances == Column(takeoff_distances_by_engine(call.engine), call.column)

\* C9: for every engine and every mass equal to an entry mass[i] of the engine's table,
\* the first, the interior and the last ones alike, calculate_base_distance returns
\* exactly distance[i] / 120 * 100 in each column, no neighbouring entry contributing.
C9_TableEntry ==
    Returned("calculate_base_distance") =>
        \A i \in 1 .. Len(TableMasses) :
            call.mass = TableMasses[i] => result = Ok(Rescaled(TableDistances[i]))

\* 540 kg, an interior entry of the Rotax912Uls table: 136 m / 120 * 100
C9_Witness ==
    /\ Returned("calculate_base_distance")
    /\ call.engine = "Rotax912Uls"
    /\ call.column = "takeoff_run"
    /\ call.mass = Dec(5400, 1)
    /\ result = Ok(Q(340, 3))

\* C10: for every engine and every mass strictly between two adjacent table masses,
\* mass[i] < mass < mass[i+1], calculate_base_distance returns
\* (distance[i] + t * (distance[i+1] - distance[i])) / 120 * 100 with
\* t = (mass - mass[i]) / (mass[i+1] - mass[i]), a value between distance[i] / 120 * 100
\* and distance[i+1] / 120 * 100 (Rotax912Uls at 550 kg lies between the rows of 540 kg
\* and 570 kg).
C10_Interpolated ==
    Returned("calculate_base_distance") =>
        \A i \in 1 .. Len(TableMasses) - 1 :
            (RatLt(TableMasses[i], call.mass) /\ RatLt(call.mass, TableMasses[i + 1])) =>
                LET t == RatDiv(RatSub(call.mass, TableMasses[i]),
                                RatSub(TableMasses[i + 1], TableMasses[i]))
                    v == Rescaled(RatAdd(TableDistances[i],
                                         RatMul(t, RatSub(TableDistances[i + 1],
                                                          TableDistances[i]))))
                IN  /\ result = Ok(v)
                    /\ RatLe(Rescaled(TableDistances[i]), v)
                    /\ RatLe(v, Rescaled(TableDistances[i + 1]))

\* Rotax912Uls at 550 kg: a third of the way from the row of 540 kg to the row of 570 kg
C10_Witness ==
    /\ Returned("calculate_base_distance")
    /\ call.engine = "Rotax912Uls"
    /\ call.column = "to_50_feet"
    /\ call.mass = Dec(5500, 1)
    /\ RatLt(Rescaled(Dec(3380, 1)), result.value)
    /\ RatLt(result.value, Rescaled(Dec(3520, 1)))

---------------------------------------------------------------------------
(* Properties of the stages of the correction chain *)

\* a <= b for natural numbers in limbs, least significant limb first
RECURSIVE BigLe(_, _)
BigLe(a, b) ==
    IF Len(a) # Len(b) THEN Len(a) < Len(b)
    ELSE IF a = << >> THEN TRUE
    ELSE IF a[Len(a)] # b[Len(b)] THEN a[Len(a)] < b[Len(b)]
    ELSE BigLe(SubSeq(a, 1, Len(a) - 1), SubSeq(b, 1, Len(b) - 1))

\* |x| <= |w| for a rational x and a running product w
NotBelow(w, x) ==
    BigLe(BigMul(BigFromInt(Abs(x.n)), BigProduct(w.dens)), BigMul(w.num, BigFromInt(x.d)))

\* the tier of a pressure altitude in feet, as the specification states it
Tier(altitude_ft) ==
    CASE RatGt(altitude_ft, Q(3000, 1))                                     -> Dec(18, 2)
      [] RatGt(altitude_ft, Q(1000, 1)) /\ RatLe(altitude_ft, Q(3000, 1)) -> Dec(13, 2)
      [] RatLe(altitude_ft, Q(1000, 1))                                     -> Dec(10, 2)

\* C11: apply_pressure_altitude_correction multiplies the distance by
\* max(1.0, 1 + tier * altitude_ft / 1000), tier 0.18 above 3000 ft, 0.13 above 1000 ft
\* up to 3000 ft and 0.10 up to 1000 ft (exactly 1000 ft uses 0.10, exactly 3000 ft
\* 0.13); for every altitude, negative ones included, the factor is at least 1, so
\* the stage never reduces the distance.
C11_AltitudeStage ==
    Returned("apply_pressure_altitude_correction") =>
        LET factor == RatMax(Q(1, 1),
                             RatAdd(Q(1, 1), RatMul(Tier(call.pressure_altitude),
                                                    RatDiv(call.pressure_altitude,
                                                           Q(1000, 1)))))
        IN  /\ result = Ok(WideMul(Wide(call.takeoff_distance), factor))
            /\ RatGe(factor, Q(1, 1))
            /\ NotBelow(result.value, call.takeoff_distance)
            /\ call.pressure_altitude = Q(1000, 1)
                   => result = Ok(WideMul(Wide(call.takeoff_distance), Dec(11, 1)))
            /\ call.pressure_altitude = Q(3000, 1)
                   => result = Ok(WideMul(Wide(call.takeoff_distance), Dec(139, 2)))
            /\ (call.pressure_altitude = Q(2000, 1) /\ call.takeoff_distance = Q(465, 1))
                   => WideRound(result.value, 2) = Dec(5859, 1)

\* at exactly 1000 ft a distance of 465 m becomes 465 * 1.10
C11_Witness ==
    /\ Returned("apply_pressure_altitude_correction")
    /\ call.pressure_altitude = Q(1000, 1)
    /\ call.takeoff_distance = Q(465, 1)
    /\ WideRound(result.value, 2) = Dec(5115, 1)

\* the deviation of a temperature from the standard temperature at an altitude in feet,
\* or the atmosphere's error wrapped
DeviationAt(altitude_ft, temperature) ==
    IF AltitudeValid(altitude_ft)
    THEN Ok(round(RatSub(temperature,
                         icao_temperature(RatMul(altitude_ft, Dec(3048, 4))).value), 2))
    ELSE InvalidPressureAltitude(icao_temperature(RatMul(altitude_ft, Dec(3048, 4))))

\* C12: the deviation used by the takeoff correction is computed from
\* max(temperature, 0): for every pressure altitude,
\* calculate_temperature_deviation_for_correction returns for every temperature <= 0
\* what it returns for 0 degrees, so that calculate_takeoff_distance returns for any
\* temperature in [-90, 0] the pair it returns for 0 degrees, all other inputs equal.
C12_TemperatureFloor ==
    /\ Returned("calculate_temperature_deviation_for_correction") =>
           /\ result = DeviationAt(call.pressure_altitude, RatMax(call.temperature, Q(0, 1)))
           /\ RatLe(call.temperature, Q(0, 1)) => result = DeviationAt(call.pressure_altitude, Q(0, 1))
           /\ (call.pressure_altitude = Q(600, 1) /\ call.temperature = Q(-3, 1))
                  => result = Ok(Dec(-1381, 2))
           /\ (call.pressure_altitude = Q(2000, 1) /\ call.temperature = Q(1, 1))
                  => result = Ok(Dec(-1004, 2))
    /\ (/\ Returned("calculate_takeoff_distance")
        /\ RatGe(call.temperature, Dec(-900, 1))
        /\ RatLe(call.temperature, Q(0, 1))) =>
           result = calculate_takeoff_distance(call.engine, call.mass, call.pressure_altitude,
                                               Q(0, 1), call.slope, call.grass_surface,
                                               call.surface_condition)

\* at 200 ft and -3 degrees the deviation is that of 0 degrees: -14.6
C12_Witness ==
    /\ Returned("calculate_temperature_deviation_for_correction")
    /\ call.pressure_altitude = Q(200, 1)
    /\ call.temperature = Q(-3, 1)
    /\ result = Ok(Dec(-146, 1))

\* the running product w has exactly the value of the rational x
SameValue(w, x) ==
    /\ BigMul(w.num, BigFromInt(x.d)) = BigMul(BigFromInt(Abs(x.n)), BigProduct(w.dens))
    /\ (x.n # 0) => (w.neg <=> x.n < 0)

\* the factors of the flags that are set, in the order of the flags and in reverse
FlagFactors(grass_surface) ==
    << IfSet(grass_surface.wet, Dec(11, 1)), IfSet(grass_surface.soft_ground, Dec(15, 1)),
       IfSet(grass_surface.damaged_turf, Dec(11, 1)), IfSet(grass_surface.high_grass, Dec(12, 1)) >>

Reversed(factors) == [i \in 1 .. Len(factors) |-> factors[Len(factors) + 1 - i]]

RECURSIVE ProductOf(_)
ProductOf(factors) ==
    IF factors = << >> THEN Q(1, 1) ELSE RatMul(Head(factors), ProductOf(Tail(factors)))

\* Rotax912Uls, 600 kg, 0 ft, 15 degrees, level, wet and soft grass, no contamination
WetAndSoft ==
    TakeoffCall("Rotax912Uls", Dec(6000, 1), Dec(0, 1), Dec(150, 1), Dec(0, 1),
                Some(TRUE, TRUE, FALSE, FALSE), "Inconspicuous")

Uncontaminated(base, altitude_ft, temperature, slope, grass_surface) ==
    WideMul(WideMul(WideMul(WideMul(Wide(base), AltitudeFactor(altitude_ft)),
                            TemperatureFactor(altitude_ft, temperature)),
                    SlopeFactor(slope)),
            GrassFactor(grass_surface))

\* the factors of the contamination stage, as the specification states them
StatedContamination ==
    [Inconspicuous |-> Dec(10, 1), Slush |-> Dec(13, 1), Snow |-> Dec(15, 1),
     PowderSnow |-> Dec(125, 2)]

\* the outcomes of the tests of apply_corrections: distance, altitude in feet,
\* temperature, wet grass or none, surface condition, result
CorrectionExamples ==
    { <<316, 600, -3, None, "Snow", Dec(43305, 2)>>,
      <<465, 2000, 1, Some(TRUE, FALSE, FALSE, FALSE), "Slush", Dec(90446, 2)>>,
      <<465, 1150, 35, None, "Inconspicuous", Dec(65361, 2)>>,
      <<465, 600, 28, Some(TRUE, FALSE, FALSE, FALSE), "Slush", Dec(96584, 2)>> }

\* C14: the contamination stage is the last multiplication before the rounding and
\* multiplies the running distance of both columns by 1.0 for Inconspicuous, 1.3 for
\* Slush, 1.5 for Snow and 1.25 for PowderSnow: changing only the contamination of an
\* accepted request changes each unrounded output by exactly that factor.
C14_ContaminationStage ==
    /\ (Returned("apply_corrections") /\ result.ok) =>
           /\ result.value =
                  WideRound(WideMul(Uncontaminated(call.takeoff_distance,
                                                   call.pressure_altitude, call.temperature,
                                                   call.slope, call.grass_surface),
                                    StatedContamination[call.surface_condition]), 2)
           /\ \A e \in CorrectionExamples :
                  (/\ call.takeoff_distance = Q(e[1], 1)
                   /\ call.pressure_altitude = Q(e[2], 1)
                   /\ call.temperature = Q(e[3], 1)
                   /\ call.grass_surface = e[4]
                   /\ call.surface_condition = e[5]) => result.value = e[6]
    /\ (Returned("calculate_takeoff_distance") /\ result.ok) =>
           \A k \in 1 .. 2 :
               LET unrounded ==
                       Uncontaminated(BaseOf(call.engine, <<"takeoff_run", "to_50_feet">>[k],
                                             call.mass),
                                      call.pressure_altitude, call.temperature, call.slope,
                                      call.grass_surface)
               IN  /\ result.value[k] =
                          WideRound(WideMul(unrounded,
                                            StatedContamination[call.surface_condition]), 2)
                   /\ WideRound(unrounded, 2) =
                          calculate_takeoff_distance(
                              call.engine, call.mass, call.pressure_altitude, call.temperature,
                              call.slope, call.grass_surface, "Inconspicuous").value[k]

\* on snow the first example of the tests gives 433.05 m
C14_Witness ==
    /\ Returned("apply_corrections")
    /\ call.takeoff_distance = Q(316, 1)
    /\ call.pressure_altitude = Q(600, 1)
    /\ call.temperature = Q(-3, 1)
    /\ call.surface_condition = "Snow"
    /\ ~call.grass_surface.is_some
    /\ result = Ok(Dec(43305, 2))

---------------------------------------------------------------------------
(* End-to-end values *)

\* Rotax912Uls, 472.5 kg, 0 ft, 15 degrees, level, on a given grass surface and condition
LightestAt(grass_surface, surface_condition) ==
    TakeoffCall("Rotax912Uls", Dec(4725, 1), Dec(0, 1), Dec(150, 1), Dec(0, 1), grass_surface,
                surface_condition)

\* C15 as stated: calculate_takeoff_distance(Rotax912Uls, 472.5, 0.0, 15.0, 0.0, None,
\* Inconspicuous) returns exactly (100.00, 225.00).
C15_Stated ==
    (Returned("calculate_takeoff_distance") /\ call = LightestAt(None, "Inconspicuous"))
        => result = Ok(<<Dec(10000, 2), Dec(22500, 2)>>)

\* C15, amended: calculate_takeoff_distance(Rotax912Uls, 472.5, 0.0, 15.0, 0.0, None,
\* Inconspicuous) returns exactly (83.33, 187.50), the table's row divided by 120 and
\* multiplied by 100; (100.00, 225.00) is what the same request returns with a grass
\* surface present and none of its flags set.
C15_Amended ==
    Returned("calculate_takeoff_distance") =>
        /\ call = LightestAt(None, "Inconspicuous")
               => result = Ok(<<Dec(8333, 2), Dec(18750, 2)>>)
        /\ call = LightestAt(Some(FALSE, FALSE, FALSE, FALSE), "Inconspicuous")
               => result = Ok(<<Dec(10000, 2), Dec(22500, 2)>>)

\* the request without grass has been answered with (83.33, 187.5)
C15_Witness ==
    /\ Returned("calculate_takeoff_distance")
    /\ call = LightestAt(None, "Inconspicuous")
    /\ result = Ok(<<Dec(8333, 2), Dec(18750, 2)>>)

\* C16 as stated: the same request with Snow returns exactly (150.00, 337.50), 1.5 times
\* the Inconspicuous result.
C16_Stated ==
    (Returned("calculate_takeoff_distance") /\ call = LightestAt(None, "Snow"))
        => result = Ok(<<Dec(15000, 2), Dec(33750, 2)>>)

\* C16, amended: calculate_takeoff_distance(Rotax912Uls, 472.5, 0.0, 15.0, 0.0, None,
\* Snow) returns exactly (125.00, 281.25), the unrounded Inconspicuous distances
\* (83.33.., 187.5) times 1.5; (150.00, 337.50) is what the same request returns with a
\* grass surface present and none of its flags set.
C16_Amended ==
    Returned("calculate_takeoff_distance") =>
        /\ call = LightestAt(None, "Snow")
               => result = Ok(<<Dec(12500, 2), Dec(28125, 2)>>)
        /\ call = LightestAt(Some(FALSE, FALSE, FALSE, FALSE), "Snow")
               => result = Ok(<<Dec(15000, 2), Dec(33750, 2)>>)

\* the request on snow without grass has been answered with (125.0, 281.25)
C16_Witness ==
    /\ Returned("calculate_takeoff_distance")
    /\ call = LightestAt(None, "Snow")
    /\ result = Ok(<<Dec(12500, 2), Dec(28125, 2)>>)

\* the rows the specification lists: engine, mass, ground roll, distance to 50 ft
ListedRows ==
    { <<"Rotax912Uls", Dec(4725, 1), Q(100, 1), Q(225, 1)>>,
      <<"Rotax912Uls", Dec(5250, 1), Q(128, 1), Q(320, 1)>>,
      <<"Rotax912Uls", Dec(6000, 1), Q(153, 1), Q(375, 1)>>,
      <<"Rotax912Ul", Dec(4725, 1), Q(106, 1), Q(265, 1)>> }

\* C17: for each engine and each row i of its table, calculate_takeoff_distance at
\* mass[i], 0 ft, 15 degrees, slope 0, a grass condition present with all four flags
\* false and Inconspicuous returns exactly the raw pair (ground_roll[i],
\* distance_to_50ft[i]): the rescale / 120 * 100 and the grass factor 1.2 cancel and
\* every other factor is 1 (e.g. (100.0, 225.0) at 472.5 kg, (128.0, 320.0) at 525 kg,
\* (153.0, 375.0) at 600 kg for Rotax912Uls and (106.0, 265.0) at 472.5 kg for Rotax912Ul).
C17_RawRow ==
    (/\ Returned("calculate_takeoff_distance")
     /\ call.pressure_altitude = Q(0, 1)
     /\ call.temperature = Q(15, 1)
     /\ call.slope = Q(0, 1)
     /\ call.grass_surface = Some(FALSE, FALSE, FALSE, FALSE)
     /\ call.surface_condition = "Inconspicuous") =>
        /\ \A i \in 1 .. Len(TableMasses) :
               call.mass = TableMasses[i] =>
                   result = Ok(<<takeoff_distances_by_engine(call.engine).takeoff_run[i],
                                 takeoff_distances_by_engine(call.engine).to_50_feet[i]>>)
        /\ \A row \in ListedRows :
               (call.engine = row[1] /\ call.mass = row[2]) => result = Ok(<<row[3], row[4]>>)

\* the row of 525 kg of the Rotax912Ul table comes back as it stands: (140, 350)
C17_Witness ==
    /\ Returned("calculate_takeoff_distance")
    /\ call = TakeoffCall("Rotax912Ul", Dec(5250, 1), Dec(0, 1), Dec(150, 1), Dec(0, 1),
                          Some(FALSE, FALSE, FALSE, FALSE), "Inconspicuous")
    /\ result = Ok(<<Q(140, 1), Q(350, 1)>>)

---------------------------------------------------------------------------
(* Properties of the errors of the atmosphere *)

\* feet * 0.3048
Metres(feet) == RatMul(feet, Dec(3048, 4))

\* C18: when temperature, slope and mass are valid, calculate_takeoff_distance returns
\* InvalidPressureAltitude{source} iff the pressure altitude in metres (feet * 0.3048)
\* is below -1000 or above 80000, and otherwise Ok with both columns; source is
\* BelowMinimum{min: -1000, ..} or AboveMaximum{max: 80000, ..} with the altitude in
\* metres (-5000 ft is reported as -1524 m); -3280.8 ft and 262467.1 ft are accepted,
\* -3280.9 ft and 262467.2 ft are rejected, and no partial result is ever returned.
C18_InvalidPressureAltitude ==
    (/\ Returned("calculate_takeoff_distance")
     /\ TemperatureValid(call.temperature)
     /\ SlopeValid(call.slope)
     /\ MassValid(call.engine, call.mass)) =>
        /\ RatLt(Metres(call.pressure_altitude), Q(-1000, 1))
               <=> result = InvalidPressureAltitude(
                                BelowMinimum(Q(-1000, 1), Metres(call.pressure_altitude)))
        /\ RatGt(Metres(call.pressure_altitude), Q(80000, 1))
               <=> result = InvalidPressureAltitude(
                                AboveMaximum(Q(80000, 1), Metres(call.pressure_altitude)))
        /\ (/\ RatGe(Metres(call.pressure_altitude), Q(-1000, 1))
            /\ RatLe(Metres(call.pressure_altitude), Q(80000, 1)))
               <=> (result.ok /\ Len(result.value) = 2)
        /\ ~result.ok => (Failed("InvalidPressureAltitude") /\ DOMAIN result = {"ok", "err", "source"})
        /\ call.pressure_altitude \in {Dec(-32808, 1), Dec(2624671, 1)} => result.ok
        /\ call.pressure_altitude \in {Dec(-32809, 1), Dec(2624672, 1)}
               => Failed("InvalidPressureAltitude")
        /\ call.pressure_altitude = Q(-5000, 1)
               => result = InvalidPressureAltitude(BelowMinimum(Q(-1000, 1), Q(-1524, 1)))

\* -5000 ft with everything else valid is reported as -1524 m below the minimum
C18_Witness ==
    /\ Returned("calculate_takeoff_distance")
    /\ TemperatureValid(call.temperature)
    /\ SlopeValid(call.slope)
    /\ MassValid(call.engine, call.mass)
    /\ call.pressure_altitude = Q(-5000, 1)
    /\ result = InvalidPressureAltitude(BelowMinimum(Q(-1000, 1), Q(-1524, 1)))

\* C19: input validation takes precedence over the atmosphere check: a request whose
\* pressure altitude is outside the envelope of the standard atmosphere and whose
\* temperature, slope or mass is out of range as well gets the temperature, slope or
\* mass error and never InvalidPressureAltitude; InvalidPressureAltitude is returned
\* only for requests that pass all three validations.
C19_ValidationFirst ==
    Returned("calculate_takeoff_distance") =>
        /\ (/\ ~AltitudeValid(call.pressure_altitude)
            /\ ~(/\ TemperatureValid(call.temperature)
                 /\ SlopeValid(call.slope)
                 /\ MassValid(call.engine, call.mass))) =>
               /\ ~result.ok
               /\ result.err \in {"TemperatureTooLow", "TemperatureTooHigh", "SlopeTooSteep",
                                  "MassTooLow", "MassTooHigh"}
               /\ ~TemperatureValid(call.temperature)
                      => result.err \in {"TemperatureTooLow", "TemperatureTooHigh"}
               /\ (TemperatureValid(call.temperature) /\ ~SlopeValid(call.slope))
                      => result.err = "SlopeTooSteep"
               /\ (TemperatureValid(call.temperature) /\ SlopeValid(call.slope))
                      => result.err \in {"MassTooLow", "MassTooHigh"}
        /\ Failed("InvalidPressureAltitude") =>
               /\ TemperatureValid(call.temperature)
               /\ SlopeValid(call.slope)
               /\ MassValid(call.engine, call.mass)
               /\ ~AltitudeValid(call.pressure_altitude)

\* -5000 ft and a mass above the table: the mass decides
C19_Witness ==
    /\ Returned("calculate_takeoff_distance")
    /\ call.pressure_altitude = Q(-5000, 1)
    /\ TemperatureValid(call.temperature)
    /\ SlopeValid(call.slope)
    /\ RatGt(call.mass, HighestMass(call.engine))
    /\ Failed("MassTooHigh")

---------------------------------------------------------------------------
(* Properties of pressure_altitude_by_qnh *)

\* C21 as stated: at the standard pressure 1013.25 the pressure altitude is
\* the field elevation itself, for any field elevation
C21_Stated ==
    Returned("pressure_altitude_by_qnh") /\ call.qnh = Dec(101325, 2)
        => result.value = call.field_elevation

\* C21 amended: at the standard pressure 1013.25 the pressure altitude is the
\* field elevation rounded to two decimals, half away from zero; it is the
\* field elevation itself when that has at most two decimals
C21_Amended ==
    Returned("pressure_altitude_by_qnh") /\ call.qnh = Dec(101325, 2)
        => /\ result.ok
           /\ result.value = Q(RoundHalfAway(RatMul(call.field_elevation, Q(100, 1))), 100)
           /\ (call.field_elevation.d \in {1, 2, 4, 5, 10, 20, 25, 50, 100}
                  => result.value = call.field_elevation)

\* 364 ft = 110.9472 m comes back as 110.95 m
C21_Witness ==
    /\ Returned("pressure_altitude_by_qnh")
    /\ call.qnh = Dec(101325, 2)
    /\ call.field_elevation = Dec(1109472, 4)
    /\ result.value = Dec(11095, 2)

---------------------------------------------------------------------------
(* Properties of normalize_degree *)

\* C22: the result r of normalize_degree(value) satisfies 0 <= r < 360 and
\* differs from value by a whole number of turns, for negative values as well
C22_Normalized ==
    Returned("normalize_degree")
        => /\ RatGe(result.value, Q(0, 1))
           /\ RatLt(result.value, Q(360, 1))
           /\ RatDiv(RatSub(call.value, result.value), Q(360, 1)).d = 1

---------------------------------------------------------------------------
(* Properties of the standard atmosphere below sea level *)

\* C23: for a pressure altitude in [-1000, 0) icao_temperature does not fail
\* and extrapolates the first band, round2(15.0 - altitude * 0.0065):
\* -1000 m gives 21.5 and -200 m gives 16.3
C23_BelowSeaLevel ==
    /\ Returned("icao_temperature")
            /\ RatGe(call.pressure_altitude, Q(-1000, 1))
            /\ RatLt(call.pressure_altitude, Q(0, 1))
        => /\ result.ok
           /\ result.value =
                  Q(RoundHalfAway(
                        RatMul(RatSub(Q(15, 1), RatMul(call.pressure_altitude, Dec(65, 4))),
                               Q(100, 1))),
                    100)
    /\ Returned("icao_temperature") /\ call.pressure_altitude = Q(-1000, 1)
        => result = Ok(Dec(215, 1))
    /\ Returned("icao_temperature") /\ call.pressure_altitude = Q(-200, 1)
        => result = Ok(Dec(163, 1))

C23_Witness ==
    /\ Returned("icao_temperature")
    /\ call.pressure_altitude = Q(-200, 1)
    /\ result = Ok(Dec(163, 1))

---------------------------------------------------------------------------
(* Properties of the static configuration *)

\* the rows a table is stated to have
StatedRows(engine) == IF engine = "Rotax912Ul" THEN 3 ELSE 5

StrictlyAscending(masses) ==
    \A i \in 1 .. Len(masses) - 1 : RatLt(masses[i], masses[i + 1])

\* the adjacent pairs of rows whose masses enclose mass
BracketingPairs(masses, mass) ==
    {i \in 1 .. Len(masses) - 1 : RatLe(masses[i], mass) /\ RatLe(mass, masses[i + 1])}

\* the bands whose range, from their base up to the next base, holds altitude
BandsHolding(altitude) ==
    {i \in 1 .. Len(LEVELS) :
        /\ RatLe(Q(LEVELS[i].base, 1), altitude)
        /\ i < Len(LEVELS) => RatLt(altitude, Q(LEVELS[i + 1].base, 1))}

\* C24: for both engines the three sequences of the table have equal length (3 for
\* Rotax912Ul, 5 for Rotax912Uls) and the masses ascend strictly; the atmosphere has
\* exactly four bands with the strictly ascending bases 0, 11000, 20000, 32000; so
\* every accepted mass has a bracketing pair of adjacent rows, which is the pair the
\* interpolation takes, and every altitude in [0, 80000] has exactly one band, which
\* is the band selected
C24_Configuration ==
    /\ \A engine \in Engine :
          /\ Len(takeoff_distances_by_engine(engine).mass) = StatedRows(engine)
          /\ Len(takeoff_distances_by_engine(engine).takeoff_run) = StatedRows(engine)
          /\ Len(takeoff_distances_by_engine(engine).to_50_feet) = StatedRows(engine)
          /\ StrictlyAscending(takeoff_distances_by_engine(engine).mass)
    /\ [i \in 1 .. Len(LEVELS) |-> LEVELS[i].base] = <<0, 11000, 20000, 32000>>
    /\ (Returned("calculate_takeoff_distance") /\ result.ok) \/ Returned("calculate_base_distance")
        => LET masses == takeoff_distances_by_engine(call.engine).mass
           IN  /\ BracketingPairs(masses, call.mass) # {}
               /\ upper_border(masses, call.mass).min_index \in BracketingPairs(masses, call.mass)
               /\ upper_border(masses, call.mass).max_index
                      = upper_border(masses, call.mass).min_index + 1
    /\ Returned("icao_temperature")
            /\ RatGe(call.pressure_altitude, Q(0, 1))
            /\ RatLe(call.pressure_altitude, Q(80000, 1))
        => /\ Cardinality(BandsHolding(call.pressure_altitude)) = 1
           /\ \A i \in BandsHolding(call.pressure_altitude) :
                  atmospheric_level_by_geopotential_altitude(call.pressure_altitude) = LEVELS[i]

\* 525 kg, a row of the table, lies in two bracketing pairs; the interpolation takes
\* the pair above
C24_Witness ==
    /\ Returned("calculate_base_distance")
    /\ call.engine = "Rotax912Uls"
    /\ call.mass = Dec(5250, 1)
    /\ BracketingPairs(takeoff_distances_by_engine(call.engine).mass, call.mass) = {1, 2}
    /\ upper_border(takeoff_distances_by_engine(call.engine).mass, call.mass).min_index = 2

---------------------------------------------------------------------------
(* Properties of the returned pair of distances *)

\* C25: every request accepted by calculate_takeoff_distance yields two strictly
\* positive distances: neither the ground roll nor the distance to 50 ft is zero or
\* negative
C25_PositiveDistances ==
    Returned("calculate_takeoff_distance") /\ result.ok
        => /\ RatGt(result.value[1], Q(0, 1))
           /\ RatGt(result.value[2], Q(0, 1))

\* C26: for every accepted request the returned distance to 50 ft is greater than or
\* equal to the returned ground roll
C26_ObstacleBeyondGroundRoll ==
    Returned("calculate_takeoff_distance") /\ result.ok
        => RatGe(result.value[2], result.value[1])

---------------------------------------------------------------------------
(* Properties of the temperature profile *)

\* the formula of a band, base_temperature - (altitude - base) * lapse_rate, before
\* it is rounded
BandFormula(band, altitude) ==
    RatSub(band.base_temperature, RatMul(RatSub(altitude, Q(band.base, 1)), band.lapse_rate))

\* C27: the standard temperature is continuous at every band boundary: the formula
\* of the lower band, evaluated at the base of the upper band (11000 m, 20000 m,
\* 32000 m), equals the base temperature of the upper band, so that icao_temperature
\* at a base returns what the band below would give there
C27_Continuous ==
    \A i \in 1 .. Len(LEVELS) - 1 :
        Returned("icao_temperature") /\ call.pressure_altitude = Q(LEVELS[i + 1].base, 1)
            => /\ BandFormula(LEVELS[i], call.pressure_altitude)
                      = LEVELS[i + 1].base_temperature
               /\ result = Ok(Q(RoundHalfAway(RatMul(BandFormula(LEVELS[i], call.pressure_altitude),
                                                     Q(100, 1))), 100))

---------------------------------------------------------------------------
(* Properties of the pressure-altitude correction across altitudes *)

\* v <= w for two running products that are not negative
WideLe(v, w) ==
    BigLe(BigMul(v.num, BigProduct(w.dens)), BigMul(w.num, BigProduct(v.dens)))

\* the pressure altitudes the correction is called with
CorrectedAltitudes == {c.pressure_altitude : c \in PressureAltitudeCalls}

\* the same distance corrected for another pressure altitude
CorrectedAt(altitude) ==
    apply_pressure_altitude_correction(Wide(call.takeoff_distance), altitude)

\* C28: the pressure-altitude correction never decreases with the pressure altitude,
\* also across the tier switches at 1000 ft and 3000 ft: a distance corrected for an
\* altitude is at most the same distance corrected for any higher altitude, and at
\* least the same distance corrected for any lower altitude
C28_MonotoneInAltitude ==
    Returned("apply_pressure_altitude_correction")
        => \A other \in CorrectedAltitudes :
               /\ RatLe(call.pressure_altitude, other) => WideLe(result.value, CorrectedAt(other))
               /\ RatLe(other, call.pressure_altitude) => WideLe(CorrectedAt(other), result.value)

\* 465 m at exactly 3000 ft (factor 1.39) and just above, at 3000.1 ft (factor 1.54018)
C28_Witness ==
    /\ Returned("apply_pressure_altitude_correction")
    /\ call.pressure_altitude = Q(3000, 1)
    /\ call.takeoff_distance = Q(465, 1)
    /\ Dec(30001, 1) \in CorrectedAltitudes
    /\ WideRound(result.value, 2) = Dec(64635, 2)
    /\ WideRound(CorrectedAt(Dec(30001, 1)), 2) = Dec(71611, 2)

===========================================================================
